---------------------------- MODULE Spec2Model ----------------------------
(***************************************************************************)
(* Model of the AI planner service (src/ai_planner/app.py) and its command *)
(* allowlist (src/ai_planner/policy.py).                                   *)
(*                                                                         *)
(* Strings that the code inspects character by character (commands and    *)
(* stage names) are sequences of one-character strings.  Regular           *)
(* expressions are kept as the pattern text of policy.py; re_compile maps  *)
(* each pattern text to its parse tree and Match interprets the tree the   *)
(* way re.match does.                                                      *)
(***************************************************************************)
EXTENDS Integers, Sequences, FiniteSets, TLC

----------------------------------------------------------------------------
(* Characters *)

Lower == {"a","b","c","d","e","f","g","h","i","j","k","l","m",
          "n","o","p","q","r","s","t","u","v","w","x","y","z"}
Upper == {"A","B","C","D","E","F","G","H","I","J","K","L","M",
          "N","O","P","Q","R","S","T","U","V","W","X","Y","Z"}
Digit == {"0","1","2","3","4","5","6","7","8","9"}
OctDigit == {"0","1","2","3","4","5","6","7"}
\* \w of the re module (within the modelled alphabet)
Word == Lower \cup Upper \cup Digit \cup {"_"}
\* characters that str.strip() removes and that \s matches
Space == {" ", "\t", "\n", "\r", "\f"}
\* characters at which str.splitlines() breaks a line
LineBreak == {"\n", "\r", "\f"}
Punct == {".", "-", "/", "*", "=", ":", "+", ";", "&", "|", "$", "!", "#", "{", "}"}
Chars == Word \cup Space \cup Punct

----------------------------------------------------------------------------
(* str methods used by the code *)

RECURSIVE lstrip(_)
lstrip(s) ==
    IF Len(s) > 0 /\ Head(s) \in Space THEN lstrip(Tail(s)) ELSE s

RECURSIVE rstrip(_)
rstrip(s) ==
    IF Len(s) > 0 /\ s[Len(s)] \in Space THEN rstrip(SubSeq(s, 1, Len(s) - 1)) ELSE s

\* str.strip()
strip(s) == rstrip(lstrip(s))

----------------------------------------------------------------------------
(* The re module: parse trees and re.match *)

Inf == -1

RECURSIVE NodeEnds(_, _, _), SeqEnds(_, _, _), RepEnds(_, _, _, _, _), StarEnds(_, _, _, _)

IsWordAt(s, j) == j >= 1 /\ j <= Len(s) /\ s[j] \in Word

\* the zero-width assertions ^, $ and \b
AtEnds(kind, s, I) ==
    CASE kind = "bol" -> {i \in I : i = 0}
      [] kind = "eol" -> {i \in I : i = Len(s) \/ (i = Len(s) - 1 /\ s[Len(s)] = "\n")}
      [] kind = "wb"  -> {i \in I : IsWordAt(s, i) # IsWordAt(s, i + 1)}

\* positions (number of characters consumed) at which node n can stop when
\* started at one of the positions I of string s
NodeEnds(n, s, I) ==
    CASE n[1] = "lit" -> {i + 1 : i \in {j \in I : j < Len(s) /\ s[j + 1] = n[2]}}
      [] n[1] = "any" -> {i + 1 : i \in {j \in I : j < Len(s) /\ s[j + 1] # "\n"}}
      [] n[1] = "in"  -> {i + 1 : i \in {j \in I : j < Len(s) /\ s[j + 1] \in n[2]}}
      [] n[1] = "at"  -> AtEnds(n[2], s, I)
      [] n[1] = "grp" -> SeqEnds(n[2], s, I)
      [] n[1] = "alt" -> UNION {SeqEnds(n[2][k], s, I) : k \in 1..Len(n[2])}
      [] n[1] = "rep" -> RepEnds(n[4], n[2], n[3], s, I)

SeqEnds(ns, s, I) ==
    IF Len(ns) = 0 \/ I = {} THEN I
    ELSE SeqEnds(Tail(ns), s, NodeEnds(Head(ns), s, I))

StarEnds(body, s, acc, frontier) ==
    LET nxt == SeqEnds(body, s, frontier) \ acc
    IN  IF nxt = {} THEN acc ELSE StarEnds(body, s, acc \cup nxt, nxt)

RepEnds(body, lo, hi, s, I) ==
    IF lo > 0 THEN RepEnds(body, lo - 1, IF hi = Inf THEN Inf ELSE hi - 1, s, SeqEnds(body, s, I))
    ELSE IF hi = 0 THEN I
    ELSE IF hi = Inf THEN StarEnds(body, s, I, I)
    ELSE I \cup RepEnds(body, 0, hi - 1, s, SeqEnds(body, s, I))

\* Pattern.match(s): the pattern matches a prefix of s
Match(tree, s) == SeqEnds(tree, s, {0}) # {}

----------------------------------------------------------------------------
(* policy.py *)

ALLOWLIST_SETS ==
        "base" :> <<
            "^echo\\b.*$",
            "^true$",
            "^false$",
            "^pwd$",
            "^printenv$",
            "^env$",
            "^ls(\\s+-[a-zA-Z]+)*(\\s+[\\w\\./\\-\\*]+)*$",
            "^cat\\s+[\\w\\./\\-\\*]+$",
            "^tee\\s+[\\w\\./\\-\\*]+$"
        >>
    @@  "git" :> <<
            "^git\\s+status\\b.*$",
            "^git\\s+fetch\\b.*$",
            "^git\\s+pull\\b.*$",
            "^git\\s+submodule\\b.*$",
            "^git\\s+rev-parse\\b.*$",
            "^git\\s+log\\b.*$"
        >>
    @@  "linux" :> <<
            "^chmod\\s+[-+rwxs0-7]+\\s+[\\w\\./\\-\\*]+$",
            "^chown\\s+[\\w:\\-]+\\s+[\\w\\./\\-\\*]+$",
            "^mv\\s+[\\w\\./\\-\\*]+\\s+[\\w\\./\\-\\*]+$",
            "^cp\\s+(-r\\s+)?[\\w\\./\\-\\*]+\\s+[\\w\\./\\-\\*]+$",
            "^rm\\s+(-rf|\\-f|\\-r)\\s+[\\w\\./\\-\\*]+$",
            "^mkdir\\s+(-p\\s+)?[\\w\\./\\-\\*]+$",
            "^du\\s+.*$",
            "^df\\s+.*$"
        >>
    @@  "build" :> <<
            "^make(\\s+[\\w\\-\\=]+)*$",
            "^cmake\\s+.*$",
            "^mvn\\s+.*$",
            "^gradle\\s+.*$",
            "^gradlew\\s+.*$"
        >>
    @@  "test" :> <<
            "^pytest(\\s+.*)?$",
            "^nose(\\s+.*)?$",
            "^pytest-xdist(\\s+.*)?$",
            "^go\\s+test(\\s+.*)?$",
            "^npm\\s+test(\\s+.*)?$",
            "^yarn\\s+test(\\s+.*)?$"
        >>
    @@  "python" :> <<
            "^python(\\d+(\\.\\d+)?)?\\s+[-\\w\\./]+(\\s+.*)?$",
            "^pip(\\d+)?\\s+install\\s+.*$",
            "^ruff\\s+.*$",
            "^flake8\\s+.*$",
            "^black\\s+.*$",
            "^pytest(\\s+.*)?$"
        >>
    @@  "node" :> <<
            "^npm\\s+(ci|i|install)\\b.*$",
            "^npm\\s+run\\s+[\\w\\-\\:]+(\\s+.*)?$",
            "^yarn(\\s+.*)?$",
            "^pnpm(\\s+.*)?$"
        >>
    @@  "java" :> <<
            "^mvn\\s+.*$",
            "^gradle\\s+.*$",
            "^gradlew\\s+.*$",
            "^java\\s+.*$",
            "^javac\\s+.*$"
        >>
    @@  "k8s" :> <<
            "^kubectl\\s+apply\\s+-f\\s+[\\w\\./\\-\\*]+$",
            "^kubectl\\s+rollout\\s+status\\s+.*$",
            "^kubectl\\s+get\\s+.*$"
        >>

re_compile(p) ==
    CASE p = "^echo\\b.*$" ->
        <<<<"at", "bol">>, <<"lit", "e">>, <<"lit", "c">>, <<"lit", "h">>, <<"lit", "o">>, <<"at", "wb">>, <<"rep", 0, Inf, <<<<"any">>>>>>, <<"at", "eol">>>>
      [] p = "^true$" ->
        <<<<"at", "bol">>, <<"lit", "t">>, <<"lit", "r">>, <<"lit", "u">>, <<"lit", "e">>, <<"at", "eol">>>>
      [] p = "^false$" ->
        <<<<"at", "bol">>, <<"lit", "f">>, <<"lit", "a">>, <<"lit", "l">>, <<"lit", "s">>, <<"lit", "e">>, <<"at", "eol">>>>
      [] p = "^pwd$" ->
        <<<<"at", "bol">>, <<"lit", "p">>, <<"lit", "w">>, <<"lit", "d">>, <<"at", "eol">>>>
      [] p = "^printenv$" ->
        <<<<"at", "bol">>, <<"lit", "p">>, <<"lit", "r">>, <<"lit", "i">>, <<"lit", "n">>, <<"lit", "t">>, <<"lit", "e">>, <<"lit", "n">>, <<"lit", "v">>, <<"at", "eol">>>>
      [] p = "^env$" ->
        <<<<"at", "bol">>, <<"lit", "e">>, <<"lit", "n">>, <<"lit", "v">>, <<"at", "eol">>>>
      [] p = "^ls(\\s+-[a-zA-Z]+)*(\\s+[\\w\\./\\-\\*]+)*$" ->
        <<<<"at", "bol">>, <<"lit", "l">>, <<"lit", "s">>, <<"rep", 0, Inf, <<<<"grp", <<<<"rep", 1, Inf, <<<<"in", Space>>>>>>, <<"lit", "-">>, <<"rep", 1, Inf, <<<<"in", Lower \cup Upper>>>>>>>>>>>>>>, <<"rep", 0, Inf, <<<<"grp", <<<<"rep", 1, Inf, <<<<"in", Space>>>>>>, <<"rep", 1, Inf, <<<<"in", Word \cup {"."} \cup {"/"} \cup {"-"} \cup {"*"}>>>>>>>>>>>>>>, <<"at", "eol">>>>
      [] p = "^cat\\s+[\\w\\./\\-\\*]+$" ->
        <<<<"at", "bol">>, <<"lit", "c">>, <<"lit", "a">>, <<"lit", "t">>, <<"rep", 1, Inf, <<<<"in", Space>>>>>>, <<"rep", 1, Inf, <<<<"in", Word \cup {"."} \cup {"/"} \cup {"-"} \cup {"*"}>>>>>>, <<"at", "eol">>>>
      [] p = "^tee\\s+[\\w\\./\\-\\*]+$" ->
        <<<<"at", "bol">>, <<"lit", "t">>, <<"lit", "e">>, <<"lit", "e">>, <<"rep", 1, Inf, <<<<"in", Space>>>>>>, <<"rep", 1, Inf, <<<<"in", Word \cup {"."} \cup {"/"} \cup {"-"} \cup {"*"}>>>>>>, <<"at", "eol">>>>
      [] p = "^git\\s+status\\b.*$" ->
        <<<<"at", "bol">>, <<"lit", "g">>, <<"lit", "i">>, <<"lit", "t">>, <<"rep", 1, Inf, <<<<"in", Space>>>>>>, <<"lit", "s">>, <<"lit", "t">>, <<"lit", "a">>, <<"lit", "t">>, <<"lit", "u">>, <<"lit", "s">>, <<"at", "wb">>, <<"rep", 0, Inf, <<<<"any">>>>>>, <<"at", "eol">>>>
      [] p = "^git\\s+fetch\\b.*$" ->
        <<<<"at", "bol">>, <<"lit", "g">>, <<"lit", "i">>, <<"lit", "t">>, <<"rep", 1, Inf, <<<<"in", Space>>>>>>, <<"lit", "f">>, <<"lit", "e">>, <<"lit", "t">>, <<"lit", "c">>, <<"lit", "h">>, <<"at", "wb">>, <<"rep", 0, Inf, <<<<"any">>>>>>, <<"at", "eol">>>>
      [] p = "^git\\s+pull\\b.*$" ->
        <<<<"at", "bol">>, <<"lit", "g">>, <<"lit", "i">>, <<"lit", "t">>, <<"rep", 1, Inf, <<<<"in", Space>>>>>>, <<"lit", "p">>, <<"lit", "u">>, <<"lit", "l">>, <<"lit", "l">>, <<"at", "wb">>, <<"rep", 0, Inf, <<<<"any">>>>>>, <<"at", "eol">>>>
      [] p = "^git\\s+submodule\\b.*$" ->
        <<<<"at", "bol">>, <<"lit", "g">>, <<"lit", "i">>, <<"lit", "t">>, <<"rep", 1, Inf, <<<<"in", Space>>>>>>, <<"lit", "s">>, <<"lit", "u">>, <<"lit", "b">>, <<"lit", "m">>, <<"lit", "o">>, <<"lit", "d">>, <<"lit", "u">>, <<"lit", "l">>, <<"lit", "e">>, <<"at", "wb">>, <<"rep", 0, Inf, <<<<"any">>>>>>, <<"at", "eol">>>>
      [] p = "^git\\s+rev-parse\\b.*$" ->
        <<<<"at", "bol">>, <<"lit", "g">>, <<"lit", "i">>, <<"lit", "t">>, <<"rep", 1, Inf, <<<<"in", Space>>>>>>, <<"lit", "r">>, <<"lit", "e">>, <<"lit", "v">>, <<"lit", "-">>, <<"lit", "p">>, <<"lit", "a">>, <<"lit", "r">>, <<"lit", "s">>, <<"lit", "e">>, <<"at", "wb">>, <<"rep", 0, Inf, <<<<"any">>>>>>, <<"at", "eol">>>>
      [] p = "^git\\s+log\\b.*$" ->
        <<<<"at", "bol">>, <<"lit", "g">>, <<"lit", "i">>, <<"lit", "t">>, <<"rep", 1, Inf, <<<<"in", Space>>>>>>, <<"lit", "l">>, <<"lit", "o">>, <<"lit", "g">>, <<"at", "wb">>, <<"rep", 0, Inf, <<<<"any">>>>>>, <<"at", "eol">>>>
      [] p = "^chmod\\s+[-+rwxs0-7]+\\s+[\\w\\./\\-\\*]+$" ->
        <<<<"at", "bol">>, <<"lit", "c">>, <<"lit", "h">>, <<"lit", "m">>, <<"lit", "o">>, <<"lit", "d">>, <<"rep", 1, Inf, <<<<"in", Space>>>>>>, <<"rep", 1, Inf, <<<<"in", {"-"} \cup {"+"} \cup {"r"} \cup {"w"} \cup {"x"} \cup {"s"} \cup OctDigit>>>>>>, <<"rep", 1, Inf, <<<<"in", Space>>>>>>, <<"rep", 1, Inf, <<<<"in", Word \cup {"."} \cup {"/"} \cup {"-"} \cup {"*"}>>>>>>, <<"at", "eol">>>>
      [] p = "^chown\\s+[\\w:\\-]+\\s+[\\w\\./\\-\\*]+$" ->
        <<<<"at", "bol">>, <<"lit", "c">>, <<"lit", "h">>, <<"lit", "o">>, <<"lit", "w">>, <<"lit", "n">>, <<"rep", 1, Inf, <<<<"in", Space>>>>>>, <<"rep", 1, Inf, <<<<"in", Word \cup {":"} \cup {"-"}>>>>>>, <<"rep", 1, Inf, <<<<"in", Space>>>>>>, <<"rep", 1, Inf, <<<<"in", Word \cup {"."} \cup {"/"} \cup {"-"} \cup {"*"}>>>>>>, <<"at", "eol">>>>
      [] p = "^mv\\s+[\\w\\./\\-\\*]+\\s+[\\w\\./\\-\\*]+$" ->
        <<<<"at", "bol">>, <<"lit", "m">>, <<"lit", "v">>, <<"rep", 1, Inf, <<<<"in", Space>>>>>>, <<"rep", 1, Inf, <<<<"in", Word \cup {"."} \cup {"/"} \cup {"-"} \cup {"*"}>>>>>>, <<"rep", 1, Inf, <<<<"in", Space>>>>>>, <<"rep", 1, Inf, <<<<"in", Word \cup {"."} \cup {"/"} \cup {"-"} \cup {"*"}>>>>>>, <<"at", "eol">>>>
      [] p = "^cp\\s+(-r\\s+)?[\\w\\./\\-\\*]+\\s+[\\w\\./\\-\\*]+$" ->
        <<<<"at", "bol">>, <<"lit", "c">>, <<"lit", "p">>, <<"rep", 1, Inf, <<<<"in", Space>>>>>>, <<"rep", 0, 1, <<<<"grp", <<<<"lit", "-">>, <<"lit", "r">>, <<"rep", 1, Inf, <<<<"in", Space>>>>>>>>>>>>>>, <<"rep", 1, Inf, <<<<"in", Word \cup {"."} \cup {"/"} \cup {"-"} \cup {"*"}>>>>>>, <<"rep", 1, Inf, <<<<"in", Space>>>>>>, <<"rep", 1, Inf, <<<<"in", Word \cup {"."} \cup {"/"} \cup {"-"} \cup {"*"}>>>>>>, <<"at", "eol">>>>
      [] p = "^rm\\s+(-rf|\\-f|\\-r)\\s+[\\w\\./\\-\\*]+$" ->
        <<<<"at", "bol">>, <<"lit", "r">>, <<"lit", "m">>, <<"rep", 1, Inf, <<<<"in", Space>>>>>>, <<"grp", <<<<"lit", "-">>, <<"alt", <<<<<<"lit", "r">>, <<"lit", "f">>>>, <<<<"lit", "f">>>>, <<<<"lit", "r">>>>>>>>>>>>, <<"rep", 1, Inf, <<<<"in", Space>>>>>>, <<"rep", 1, Inf, <<<<"in", Word \cup {"."} \cup {"/"} \cup {"-"} \cup {"*"}>>>>>>, <<"at", "eol">>>>
      [] p = "^mkdir\\s+(-p\\s+)?[\\w\\./\\-\\*]+$" ->
        <<<<"at", "bol">>, <<"lit", "m">>, <<"lit", "k">>, <<"lit", "d">>, <<"lit", "i">>, <<"lit", "r">>, <<"rep", 1, Inf, <<<<"in", Space>>>>>>, <<"rep", 0, 1, <<<<"grp", <<<<"lit", "-">>, <<"lit", "p">>, <<"rep", 1, Inf, <<<<"in", Space>>>>>>>>>>>>>>, <<"rep", 1, Inf, <<<<"in", Word \cup {"."} \cup {"/"} \cup {"-"} \cup {"*"}>>>>>>, <<"at", "eol">>>>
      [] p = "^du\\s+.*$" ->
        <<<<"at", "bol">>, <<"lit", "d">>, <<"lit", "u">>, <<"rep", 1, Inf, <<<<"in", Space>>>>>>, <<"rep", 0, Inf, <<<<"any">>>>>>, <<"at", "eol">>>>
      [] p = "^df\\s+.*$" ->
        <<<<"at", "bol">>, <<"lit", "d">>, <<"lit", "f">>, <<"rep", 1, Inf, <<<<"in", Space>>>>>>, <<"rep", 0, Inf, <<<<"any">>>>>>, <<"at", "eol">>>>
      [] p = "^make(\\s+[\\w\\-\\=]+)*$" ->
        <<<<"at", "bol">>, <<"lit", "m">>, <<"lit", "a">>, <<"lit", "k">>, <<"lit", "e">>, <<"rep", 0, Inf, <<<<"grp", <<<<"rep", 1, Inf, <<<<"in", Space>>>>>>, <<"rep", 1, Inf, <<<<"in", Word \cup {"-"} \cup {"="}>>>>>>>>>>>>>>, <<"at", "eol">>>>
      [] p = "^cmake\\s+.*$" ->
        <<<<"at", "bol">>, <<"lit", "c">>, <<"lit", "m">>, <<"lit", "a">>, <<"lit", "k">>, <<"lit", "e">>, <<"rep", 1, Inf, <<<<"in", Space>>>>>>, <<"rep", 0, Inf, <<<<"any">>>>>>, <<"at", "eol">>>>
      [] p = "^mvn\\s+.*$" ->
        <<<<"at", "bol">>, <<"lit", "m">>, <<"lit", "v">>, <<"lit", "n">>, <<"rep", 1, Inf, <<<<"in", Space>>>>>>, <<"rep", 0, Inf, <<<<"any">>>>>>, <<"at", "eol">>>>
      [] p = "^gradle\\s+.*$" ->
        <<<<"at", "bol">>, <<"lit", "g">>, <<"lit", "r">>, <<"lit", "a">>, <<"lit", "d">>, <<"lit", "l">>, <<"lit", "e">>, <<"rep", 1, Inf, <<<<"in", Space>>>>>>, <<"rep", 0, Inf, <<<<"any">>>>>>, <<"at", "eol">>>>
      [] p = "^gradlew\\s+.*$" ->
        <<<<"at", "bol">>, <<"lit", "g">>, <<"lit", "r">>, <<"lit", "a">>, <<"lit", "d">>, <<"lit", "l">>, <<"lit", "e">>, <<"lit", "w">>, <<"rep", 1, Inf, <<<<"in", Space>>>>>>, <<"rep", 0, Inf, <<<<"any">>>>>>, <<"at", "eol">>>>
      [] p = "^pytest(\\s+.*)?$" ->
        <<<<"at", "bol">>, <<"lit", "p">>, <<"lit", "y">>, <<"lit", "t">>, <<"lit", "e">>, <<"lit", "s">>, <<"lit", "t">>, <<"rep", 0, 1, <<<<"grp", <<<<"rep", 1, Inf, <<<<"in", Space>>>>>>, <<"rep", 0, Inf, <<<<"any">>>>>>>>>>>>>>, <<"at", "eol">>>>
      [] p = "^nose(\\s+.*)?$" ->
        <<<<"at", "bol">>, <<"lit", "n">>, <<"lit", "o">>, <<"lit", "s">>, <<"lit", "e">>, <<"rep", 0, 1, <<<<"grp", <<<<"rep", 1, Inf, <<<<"in", Space>>>>>>, <<"rep", 0, Inf, <<<<"any">>>>>>>>>>>>>>, <<"at", "eol">>>>
      [] p = "^pytest-xdist(\\s+.*)?$" ->
        <<<<"at", "bol">>, <<"lit", "p">>, <<"lit", "y">>, <<"lit", "t">>, <<"lit", "e">>, <<"lit", "s">>, <<"lit", "t">>, <<"lit", "-">>, <<"lit", "x">>, <<"lit", "d">>, <<"lit", "i">>, <<"lit", "s">>, <<"lit", "t">>, <<"rep", 0, 1, <<<<"grp", <<<<"rep", 1, Inf, <<<<"in", Space>>>>>>, <<"rep", 0, Inf, <<<<"any">>>>>>>>>>>>>>, <<"at", "eol">>>>
      [] p = "^go\\s+test(\\s+.*)?$" ->
        <<<<"at", "bol">>, <<"lit", "g">>, <<"lit", "o">>, <<"rep", 1, Inf, <<<<"in", Space>>>>>>, <<"lit", "t">>, <<"lit", "e">>, <<"lit", "s">>, <<"lit", "t">>, <<"rep", 0, 1, <<<<"grp", <<<<"rep", 1, Inf, <<<<"in", Space>>>>>>, <<"rep", 0, Inf, <<<<"any">>>>>>>>>>>>>>, <<"at", "eol">>>>
      [] p = "^npm\\s+test(\\s+.*)?$" ->
        <<<<"at", "bol">>, <<"lit", "n">>, <<"lit", "p">>, <<"lit", "m">>, <<"rep", 1, Inf, <<<<"in", Space>>>>>>, <<"lit", "t">>, <<"lit", "e">>, <<"lit", "s">>, <<"lit", "t">>, <<"rep", 0, 1, <<<<"grp", <<<<"rep", 1, Inf, <<<<"in", Space>>>>>>, <<"rep", 0, Inf, <<<<"any">>>>>>>>>>>>>>, <<"at", "eol">>>>
      [] p = "^yarn\\s+test(\\s+.*)?$" ->
        <<<<"at", "bol">>, <<"lit", "y">>, <<"lit", "a">>, <<"lit", "r">>, <<"lit", "n">>, <<"rep", 1, Inf, <<<<"in", Space>>>>>>, <<"lit", "t">>, <<"lit", "e">>, <<"lit", "s">>, <<"lit", "t">>, <<"rep", 0, 1, <<<<"grp", <<<<"rep", 1, Inf, <<<<"in", Space>>>>>>, <<"rep", 0, Inf, <<<<"any">>>>>>>>>>>>>>, <<"at", "eol">>>>
      [] p = "^python(\\d+(\\.\\d+)?)?\\s+[-\\w\\./]+(\\s+.*)?$" ->
        <<<<"at", "bol">>, <<"lit", "p">>, <<"lit", "y">>, <<"lit", "t">>, <<"lit", "h">>, <<"lit", "o">>, <<"lit", "n">>, <<"rep", 0, 1, <<<<"grp", <<<<"rep", 1, Inf, <<<<"in", Digit>>>>>>, <<"rep", 0, 1, <<<<"grp", <<<<"lit", ".">>, <<"rep", 1, Inf, <<<<"in", Digit>>>>>>>>>>>>>>>>>>>>>>, <<"rep", 1, Inf, <<<<"in", Space>>>>>>, <<"rep", 1, Inf, <<<<"in", {"-"} \cup Word \cup {"."} \cup {"/"}>>>>>>, <<"rep", 0, 1, <<<<"grp", <<<<"rep", 1, Inf, <<<<"in", Space>>>>>>, <<"rep", 0, Inf, <<<<"any">>>>>>>>>>>>>>, <<"at", "eol">>>>
      [] p = "^pip(\\d+)?\\s+install\\s+.*$" ->
        <<<<"at", "bol">>, <<"lit", "p">>, <<"lit", "i">>, <<"lit", "p">>, <<"rep", 0, 1, <<<<"grp", <<<<"rep", 1, Inf, <<<<"in", Digit>>>>>>>>>>>>>>, <<"rep", 1, Inf, <<<<"in", Space>>>>>>, <<"lit", "i">>, <<"lit", "n">>, <<"lit", "s">>, <<"lit", "t">>, <<"lit", "a">>, <<"lit", "l">>, <<"lit", "l">>, <<"rep", 1, Inf, <<<<"in", Space>>>>>>, <<"rep", 0, Inf, <<<<"any">>>>>>, <<"at", "eol">>>>
      [] p = "^ruff\\s+.*$" ->
        <<<<"at", "bol">>, <<"lit", "r">>, <<"lit", "u">>, <<"lit", "f">>, <<"lit", "f">>, <<"rep", 1, Inf, <<<<"in", Space>>>>>>, <<"rep", 0, Inf, <<<<"any">>>>>>, <<"at", "eol">>>>
      [] p = "^flake8\\s+.*$" ->
        <<<<"at", "bol">>, <<"lit", "f">>, <<"lit", "l">>, <<"lit", "a">>, <<"lit", "k">>, <<"lit", "e">>, <<"lit", "8">>, <<"rep", 1, Inf, <<<<"in", Space>>>>>>, <<"rep", 0, Inf, <<<<"any">>>>>>, <<"at", "eol">>>>
      [] p = "^black\\s+.*$" ->
        <<<<"at", "bol">>, <<"lit", "b">>, <<"lit", "l">>, <<"lit", "a">>, <<"lit", "c">>, <<"lit", "k">>, <<"rep", 1, Inf, <<<<"in", Space>>>>>>, <<"rep", 0, Inf, <<<<"any">>>>>>, <<"at", "eol">>>>
      [] p = "^npm\\s+(ci|i|install)\\b.*$" ->
        <<<<"at", "bol">>, <<"lit", "n">>, <<"lit", "p">>, <<"lit", "m">>, <<"rep", 1, Inf, <<<<"in", Space>>>>>>, <<"grp", <<<<"alt", <<<<<<"lit", "c">>, <<"lit", "i">>>>, <<<<"lit", "i">>>>, <<<<"lit", "i">>, <<"lit", "n">>, <<"lit", "s">>, <<"lit", "t">>, <<"lit", "a">>, <<"lit", "l">>, <<"lit", "l">>>>>>>>>>>>, <<"at", "wb">>, <<"rep", 0, Inf, <<<<"any">>>>>>, <<"at", "eol">>>>
      [] p = "^npm\\s+run\\s+[\\w\\-\\:]+(\\s+.*)?$" ->
        <<<<"at", "bol">>, <<"lit", "n">>, <<"lit", "p">>, <<"lit", "m">>, <<"rep", 1, Inf, <<<<"in", Space>>>>>>, <<"lit", "r">>, <<"lit", "u">>, <<"lit", "n">>, <<"rep", 1, Inf, <<<<"in", Space>>>>>>, <<"rep", 1, Inf, <<<<"in", Word \cup {"-"} \cup {":"}>>>>>>, <<"rep", 0, 1, <<<<"grp", <<<<"rep", 1, Inf, <<<<"in", Space>>>>>>, <<"rep", 0, Inf, <<<<"any">>>>>>>>>>>>>>, <<"at", "eol">>>>
      [] p = "^yarn(\\s+.*)?$" ->
        <<<<"at", "bol">>, <<"lit", "y">>, <<"lit", "a">>, <<"lit", "r">>, <<"lit", "n">>, <<"rep", 0, 1, <<<<"grp", <<<<"rep", 1, Inf, <<<<"in", Space>>>>>>, <<"rep", 0, Inf, <<<<"any">>>>>>>>>>>>>>, <<"at", "eol">>>>
      [] p = "^pnpm(\\s+.*)?$" ->
        <<<<"at", "bol">>, <<"lit", "p">>, <<"lit", "n">>, <<"lit", "p">>, <<"lit", "m">>, <<"rep", 0, 1, <<<<"grp", <<<<"rep", 1, Inf, <<<<"in", Space>>>>>>, <<"rep", 0, Inf, <<<<"any">>>>>>>>>>>>>>, <<"at", "eol">>>>
      [] p = "^java\\s+.*$" ->
        <<<<"at", "bol">>, <<"lit", "j">>, <<"lit", "a">>, <<"lit", "v">>, <<"lit", "a">>, <<"rep", 1, Inf, <<<<"in", Space>>>>>>, <<"rep", 0, Inf, <<<<"any">>>>>>, <<"at", "eol">>>>
      [] p = "^javac\\s+.*$" ->
        <<<<"at", "bol">>, <<"lit", "j">>, <<"lit", "a">>, <<"lit", "v">>, <<"lit", "a">>, <<"lit", "c">>, <<"rep", 1, Inf, <<<<"in", Space>>>>>>, <<"rep", 0, Inf, <<<<"any">>>>>>, <<"at", "eol">>>>
      [] p = "^kubectl\\s+apply\\s+-f\\s+[\\w\\./\\-\\*]+$" ->
        <<<<"at", "bol">>, <<"lit", "k">>, <<"lit", "u">>, <<"lit", "b">>, <<"lit", "e">>, <<"lit", "c">>, <<"lit", "t">>, <<"lit", "l">>, <<"rep", 1, Inf, <<<<"in", Space>>>>>>, <<"lit", "a">>, <<"lit", "p">>, <<"lit", "p">>, <<"lit", "l">>, <<"lit", "y">>, <<"rep", 1, Inf, <<<<"in", Space>>>>>>, <<"lit", "-">>, <<"lit", "f">>, <<"rep", 1, Inf, <<<<"in", Space>>>>>>, <<"rep", 1, Inf, <<<<"in", Word \cup {"."} \cup {"/"} \cup {"-"} \cup {"*"}>>>>>>, <<"at", "eol">>>>
      [] p = "^kubectl\\s+rollout\\s+status\\s+.*$" ->
        <<<<"at", "bol">>, <<"lit", "k">>, <<"lit", "u">>, <<"lit", "b">>, <<"lit", "e">>, <<"lit", "c">>, <<"lit", "t">>, <<"lit", "l">>, <<"rep", 1, Inf, <<<<"in", Space>>>>>>, <<"lit", "r">>, <<"lit", "o">>, <<"lit", "l">>, <<"lit", "l">>, <<"lit", "o">>, <<"lit", "u">>, <<"lit", "t">>, <<"rep", 1, Inf, <<<<"in", Space>>>>>>, <<"lit", "s">>, <<"lit", "t">>, <<"lit", "a">>, <<"lit", "t">>, <<"lit", "u">>, <<"lit", "s">>, <<"rep", 1, Inf, <<<<"in", Space>>>>>>, <<"rep", 0, Inf, <<<<"any">>>>>>, <<"at", "eol">>>>
      [] p = "^kubectl\\s+get\\s+.*$" ->
        <<<<"at", "bol">>, <<"lit", "k">>, <<"lit", "u">>, <<"lit", "b">>, <<"lit", "e">>, <<"lit", "c">>, <<"lit", "t">>, <<"lit", "l">>, <<"rep", 1, Inf, <<<<"in", Space>>>>>>, <<"lit", "g">>, <<"lit", "e">>, <<"lit", "t">>, <<"rep", 1, Inf, <<<<"in", Space>>>>>>, <<"rep", 0, Inf, <<<<"any">>>>>>, <<"at", "eol">>>>

\* the pattern text that load_active_allowlist always includes
BASELINE == "^echo\\b.*$"

\* compile_allowlist keeps the patterns in order; a compiled pattern is
\* represented by its text and interpreted through re_compile
compile_allowlist(patterns) == patterns

\* os.getenv("ALLOWLIST_MODE", "strict").strip().lower()
NormMode(m) ==
    CASE m = " OFF " -> "off"
      [] m = "Strict" -> "strict"
      [] OTHER -> m

InSeq(x, sq) == \E i \in 1..Len(sq) : sq[i] = x

Last(sq) == sq[Len(sq)]

\* ConcatSets with "patterns = ..." in place of "patterns += ...": only the
\* last selected set is kept
ConcatSets_last_only(selected) ==
    IF selected = <<>> THEN <<>>
    ELSE IF Last(selected) \in DOMAIN ALLOWLIST_SETS THEN ALLOWLIST_SETS[Last(selected)]
    ELSE <<>>

RECURSIVE ConcatSets(_)
ConcatSets(selected) ==
    IF selected = <<>> THEN <<>>
    ELSE (IF Head(selected) \in DOMAIN ALLOWLIST_SETS
             THEN ALLOWLIST_SETS[Head(selected)] ELSE <<>>)
         \o ConcatSets(Tail(selected))

\* load_active_allowlist without the baseline pattern
load_active_allowlist_no_baseline(env_mode, env_allowlist) ==
    LET mode == NormMode(env_mode)
        selected == SelectSeq(env_allowlist, LAMBDA x : x # "")
    IN  IF mode = "off" THEN <<>> ELSE compile_allowlist(ConcatSets(selected))

\* env_allowlist is the value of ALLOWLIST already split at ","; an item
\* that is blank after strip() is the empty string
load_active_allowlist(env_mode, env_allowlist) ==
    LET mode == NormMode(env_mode)
        selected == SelectSeq(env_allowlist, LAMBDA x : x # "")
        patterns == ConcatSets(selected)
    IN  IF mode = "off" THEN <<>>
        ELSE compile_allowlist(IF ~InSeq(BASELINE, patterns)
                                  THEN Append(patterns, BASELINE)
                                  ELSE patterns)

\* is_allowed without the length limit
is_allowed_no_limit(active, max_cmd_length, command) ==
    IF active = <<>> THEN TRUE
    ELSE LET cmd == strip(command)
         IN  \E i \in 1..Len(active) : Match(re_compile(active[i]), cmd)

\* is_allowed with the length limit tested before the 'off' mode
is_allowed_limit_first(active, max_cmd_length, command) ==
    LET cmd == strip(command)
    IN  IF Len(cmd) > max_cmd_length THEN FALSE
        ELSE IF active = <<>> THEN TRUE
        ELSE \E i \in 1..Len(active) : Match(re_compile(active[i]), cmd)

is_allowed(active, max_cmd_length, command) ==
    IF active = <<>> THEN TRUE
    ELSE LET cmd == strip(command)
         IN  IF Len(cmd) > max_cmd_length THEN FALSE
             ELSE \E i \in 1..Len(active) : Match(re_compile(active[i]), cmd)

----------------------------------------------------------------------------
(* app.py: the decoded payload and the sanitizer *)

(* A value decoded by json.loads is one of                                 *)
(*   <<"scalar">>            a number, string, boolean or null             *)
(*   <<"list", items>>       each item a decoded value                     *)
(*   <<"dict", stages>>      an object; stages is its "stages" member:     *)
(*       <<"absent">>, <<"null">> (null, a number or a boolean),           *)
(*       <<"str", s>>, <<"dict">>, or <<"list", items>> whose items are    *)
(*       <<"other">> (not an object) or <<"stage", name, command>>, the    *)
(*       members name and command being <<"absent">>, <<"null">> or        *)
(*       <<"str", s>>.                                                      *)

MAX_STAGES == 2

StrStage == <<"S", "t", "a", "g", "e">>
StrNone == <<"N", "o", "n", "e">>
StrEchoNoop == <<"e", "c", "h", "o", " ", "n", "o", "o", "p">>

\* characters that _sanitize_name keeps
NameChars == Lower \cup Upper \cup Digit \cup {" ", ".", "_", "-"}

Min(a, b) == IF a < b THEN a ELSE b

_sanitize_name(name) ==
    LET kept == SelectSeq(name, LAMBDA c : c \in NameChars)
    IN  SubSeq(kept, 1, Min(40, Len(kept)))

\* str(raw.get(key, default)) for a member of a stage object
StrOfMember(member, default) ==
    CASE member[1] = "absent" -> default
      [] member[1] = "null"   -> StrNone
      [] member[1] = "str"    -> member[2]

\* s.splitlines()[0] for a non-empty s
RECURSIVE FirstLine(_)
FirstLine(s) ==
    IF Len(s) = 0 \/ Head(s) \in LineBreak THEN <<>>
    ELSE <<Head(s)>> \o FirstLine(Tail(s))

\* the is_allowed that app.py ends up with: policy.is_allowed, or the
\* allow-everything fallback when importing policy failed
app_is_allowed(imported, active, max_cmd_length, c) ==
    IF imported THEN is_allowed(active, max_cmd_length, c) ELSE TRUE

\* FilterLoop without the call of is_allowed
RECURSIVE FilterLoop_unchecked(_, _, _, _, _)
FilterLoop_unchecked(items, stages, imported, active, max_cmd_length) ==
    IF Len(items) = 0 THEN <<"ok", stages>>
    ELSE LET raw == Head(items)
             rest == Tail(items)
         IN  IF raw[1] # "stage" THEN <<"raise", "AttributeError">>
             ELSE LET n == _sanitize_name(StrOfMember(raw[2], StrStage))
                      cs == StrOfMember(raw[3], StrEchoNoop)
                  IN  IF Len(cs) = 0 THEN <<"raise", "IndexError">>
                      ELSE LET c == strip(FirstLine(cs))
                           IN  IF Len(c) = 0
                                  THEN FilterLoop_unchecked(rest, stages, imported, active,
                                                            max_cmd_length)
                               ELSE FilterLoop_unchecked(rest,
                                        Append(stages, [name |-> n, command |-> c]),
                                        imported, active, max_cmd_length)

\* FilterLoop with strip() applied before splitlines()[0]
RECURSIVE FilterLoop_strip_first(_, _, _, _, _)
FilterLoop_strip_first(items, stages, imported, active, max_cmd_length) ==
    IF Len(items) = 0 THEN <<"ok", stages>>
    ELSE LET raw == Head(items)
             rest == Tail(items)
         IN  IF raw[1] # "stage" THEN <<"raise", "AttributeError">>
             ELSE LET n == _sanitize_name(StrOfMember(raw[2], StrStage))
                      cs == StrOfMember(raw[3], StrEchoNoop)
                  IN  IF Len(cs) = 0 THEN <<"raise", "IndexError">>
                      ELSE LET c == FirstLine(strip(cs))
                           IN  IF Len(c) = 0
                                  THEN FilterLoop_strip_first(rest, stages, imported, active,
                                                              max_cmd_length)
                               ELSE IF app_is_allowed(imported, active, max_cmd_length, c)
                                  THEN FilterLoop_strip_first(rest,
                                           Append(stages, [name |-> n, command |-> c]),
                                           imported, active, max_cmd_length)
                               ELSE FilterLoop_strip_first(rest, stages, imported, active,
                                                           max_cmd_length)

\* the loop of _postprocess_and_filter over the truncated stage list
RECURSIVE FilterLoop(_, _, _, _, _)
FilterLoop(items, stages, imported, active, max_cmd_length) ==
    IF Len(items) = 0 THEN <<"ok", stages>>
    ELSE LET raw == Head(items)
             rest == Tail(items)
         IN  IF raw[1] # "stage" THEN <<"raise", "AttributeError">>
             ELSE LET n == _sanitize_name(StrOfMember(raw[2], StrStage))
                      cs == StrOfMember(raw[3], StrEchoNoop)
                  IN  IF Len(cs) = 0 THEN <<"raise", "IndexError">>
                      ELSE LET c == strip(FirstLine(cs))
                           IN  IF Len(c) = 0
                                  THEN FilterLoop(rest, stages, imported, active, max_cmd_length)
                               ELSE IF app_is_allowed(imported, active, max_cmd_length, c)
                                  THEN FilterLoop(rest, Append(stages, [name |-> n, command |-> c]),
                                                  imported, active, max_cmd_length)
                               ELSE FilterLoop(rest, stages, imported, active, max_cmd_length)

\* _postprocess_and_filter with the slice [:MAX_STAGES] taken of the stages
\* kept instead of the stages given
_postprocess_and_filter_truncates_last(plan, imported, active, max_cmd_length) ==
    IF plan[1] # "dict" THEN <<"raise", "AttributeError">>
    ELSE LET sv == plan[2]
         IN  CASE sv[1] = "absent" -> <<"ok", <<>>>>
               [] sv[1] = "null"   -> <<"raise", "TypeError">>
               [] sv[1] = "dict"   -> <<"raise", "TypeError">>
               [] sv[1] = "str"    -> IF Len(sv[2]) = 0 THEN <<"ok", <<>>>>
                                      ELSE <<"raise", "AttributeError">>
               [] sv[1] = "list"   ->
                    LET all == FilterLoop(sv[2], <<>>, imported, active, max_cmd_length)
                    IN  IF all[1] = "raise" THEN all
                        ELSE <<"ok", SubSeq(all[2], 1, Min(MAX_STAGES, Len(all[2])))>>

\* _postprocess_and_filter(plan): <<"ok", stages>> when it returns
\* {"stages": stages}, <<"raise", exception>> when it raises
_postprocess_and_filter(plan, imported, active, max_cmd_length) ==
    IF plan[1] # "dict" THEN <<"raise", "AttributeError">>
    ELSE LET sv == plan[2]
         IN  CASE sv[1] = "absent" -> <<"ok", <<>>>>
               [] sv[1] = "null"   -> <<"raise", "TypeError">>
               [] sv[1] = "dict"   -> <<"raise", "TypeError">>
               [] sv[1] = "str"    -> IF Len(sv[2]) = 0 THEN <<"ok", <<>>>>
                                      ELSE <<"raise", "AttributeError">>
               [] sv[1] = "list"   ->
                    FilterLoop(SubSeq(sv[2], 1, Min(MAX_STAGES, Len(sv[2]))), <<>>,
                               imported, active, max_cmd_length)

----------------------------------------------------------------------------
(* app.py: the Generator's text, _extract_json and json.loads *)

(* A non-empty text of the Generator is <<wrap, body>>:                    *)
(*   wrap  "bare", "fenced" (inside ``` or ```json fences) or "prose"      *)
(*         (sentences without braces before and after the body);           *)
(*   body  <<"json", value>> (the serialisation of a decoded value),       *)
(*         <<"junk">> (no JSON, no braces) or <<"bracejunk">> (no JSON,    *)
(*         but it starts with "{" and ends with "}").                      *)

IsDict(v) == v[1] = "dict"

\* the items of a list that are objects, in order
DictItems(items) == SelectSeq(items, IsDict)

\* _extract_json(text): the fences are removed; when the rest holds a "{"
\* with a later "}", the widest such span is returned (without the prose),
\* else the rest as it is
_extract_json(text) ==
    LET wrap == text[1]
        body == text[2]
        cleaned == <<IF wrap = "prose" THEN "prose" ELSE "bare", body>>
    IN  CASE body[1] = "junk"      -> cleaned
          [] body[1] = "bracejunk" -> <<"bare", body>>
          [] body[1] = "json"      ->
                LET v == body[2]
                IN  CASE v[1] = "dict"   -> <<"bare", body>>
                      [] v[1] = "scalar" -> cleaned
                      [] v[1] = "list"   ->
                            LET ds == DictItems(v[2])
                            IN  IF Len(ds) = 0 THEN cleaned
                                ELSE IF Len(ds) = 1 THEN <<"bare", <<"json", ds[1]>>>>
                                ELSE <<"bare", <<"bracejunk">>>>

\* json.loads(payload): <<"ok", value>> or <<"raise", "JSONDecodeError">>
json_loads(payload) ==
    IF payload[1] = "bare" /\ payload[2][1] = "json"
        THEN <<"ok", payload[2][2]>>
        ELSE <<"raise", "JSONDecodeError">>

----------------------------------------------------------------------------
(* app.py: fingerprint and cache *)

\* A Context is the sequence of the <<key, value>> members of the request's
\* JSON object, in the order they were sent.
KeyRank == "branch" :> 1 @@ "message" :> 2

RECURSIVE InsertSorted(_, _)
InsertSorted(pair, sorted) ==
    IF Len(sorted) = 0 THEN <<pair>>
    ELSE IF KeyRank[pair[1]] <= KeyRank[Head(sorted)[1]] THEN <<pair>> \o sorted
    ELSE <<Head(sorted)>> \o InsertSorted(pair, Tail(sorted))

\* SortKeys that leaves the members in the order they were sent
SortKeys_unsorted(ctx) == ctx

RECURSIVE SortKeys(_)
SortKeys(ctx) ==
    IF Len(ctx) = 0 THEN <<>> ELSE InsertSorted(Head(ctx), SortKeys(Tail(ctx)))

\* _ctx_key(ctx): the SHA-1 digest of json.dumps(ctx, sort_keys=True); the
\* digest is represented by the serialisation it is computed from
_ctx_key(ctx) == SortKeys(ctx)

CACHE_TTL_SEC == 1

\* Python's None: a cache slot without entry, a local not yet assigned
None == <<>>

\* the dict {"stages": stages} that _postprocess_and_filter returns
PlanDict(stages) == <<"stages", stages>>

\* plan["stages"]
StagesOf(plan) == plan[2]

\* GetCachedResult with "ent[0] >= now" in place of "ent[0] > now"
GetCachedResult_inclusive(cache, key, now) ==
    LET ent == cache[key]
    IN  IF ent # None /\ ent[1] >= now THEN ent[2] ELSE None

\* _get_cached(key) run without interruption: the value returned
GetCachedResult(cache, key, now) ==
    LET ent == cache[key]
    IN  IF ent # None /\ ent[1] > now THEN ent[2] ELSE None

\* _get_cached(key) run without interruption: the cache afterwards
GetCachedCache(cache, key, now) ==
    LET ent == cache[key]
    IN  IF ent # None /\ ent[1] > now THEN cache
        ELSE IF ent # None THEN [cache EXCEPT ![key] = None]
        ELSE cache

\* _put_cache(key, plan): the cache afterwards
_put_cache(cache, key, plan, now) ==
    [cache EXCEPT ![key] = <<now + CACHE_TTL_SEC, plan>>]

----------------------------------------------------------------------------
(* Bounds and input pools *)

\* a small configured MAX_CMD_LENGTH, next to the default
ShortCmdLimit == 8
\* commands are also drawn from all strings over SmallAlphabet of at most
\* this length
MaxGenLen == 3
\* raw plans hold at most this many stages
MaxPlanLen == 3
\* the clock stops here
MaxTime == 2
\* number of /plan requests in progress at once
MaxRequests == 2

MAX_CMD_LENGTH_DEFAULT == 500

SmallAlphabet == {"e", "l", "s", " ", "\n", "x"}

RECURSIVE StringsUpTo(_)
StringsUpTo(n) ==
    IF n = 0 THEN {<<>>}
    ELSE LET shorter == StringsUpTo(n - 1)
         IN  shorter \cup {Append(s, c) : s \in shorter, c \in SmallAlphabet}

EchoHello == <<"e", "c", "h", "o", " ", "h", "e", "l", "l", "o">>
PipInstall == <<"p", "i", "p", " ", "i", "n", "s", "t", "a", "l", "l", " ", "-", "r", " ",
                "r", "e", "q", "u", "i", "r", "e", "m", "e", "n", "t", "s", ".", "t", "x", "t">>
RmRf == <<"r", "m", " ", "-", "r", "f", " ", "/">>
LsThenRm == <<"l", "s", " ", "\n", "r", "m", " ", "-", "r", "f", " ", "/">>
PaddedLs == <<" ", "l", "s", " ", "-", "l", " ", "\n">>
LsL == <<"l", "s", " ", "-", "l">>
GitStatus == <<"g", "i", "t", " ", "s", "t", "a", "t", "u", "s">>
Echox == <<"e", "c", "h", "o", "x">>
EchoSemi == <<"e", "c", "h", "o", " ", "a", ";", "r", "m", " ", "-", "r", "f", " ", "/">>
\* MAX_CMD_LENGTH_DEFAULT + 1 times "x"
LongX == [i \in 1..(MAX_CMD_LENGTH_DEFAULT + 1) |-> "x"]
\* "echo " followed by MAX_CMD_LENGTH_DEFAULT times "x"
LongEcho == <<"e", "c", "h", "o", " ">> \o [i \in 1..MAX_CMD_LENGTH_DEFAULT |-> "x"]
\* MAX_CMD_LENGTH_DEFAULT times "x" between blanks: too long only before strip()
PaddedAtLimit == <<" ", " ">> \o [i \in 1..MAX_CMD_LENGTH_DEFAULT |-> "x"] \o <<" ">>

NamedCommands ==
    {EchoHello, StrEchoNoop, PipInstall, RmRf, LsThenRm, PaddedLs, LsL, GitStatus, Echox,
     EchoSemi, LongX, LongEcho, PaddedAtLimit}

Commands == NamedCommands \cup StringsUpTo(MaxGenLen)

ModePool == {"strict", "off", " OFF ", "audit"}

AllowlistPool ==
    {<<"base">>, <<"python">>, <<"base", "python">>, <<"python", "base">>, <<"">>,
     <<"nosuch">>, <<"git", "", "nosuch", "base">>,
     <<"linux", "build", "test", "node", "java", "k8s">>}

MaxCmdLengthPool == {MAX_CMD_LENGTH_DEFAULT, ShortCmdLimit}

Str(s) == <<"str", s>>
Absent == <<"absent">>
Null == <<"null">>
Stage(name, cmd) == <<"stage", name, cmd>>

NameBuild == <<"B", "u", "i", "l", "d">>
NameRunTests == <<"R", "u", "n", " ", "t", "e", "s", "t", "s", "!">>
NameDollars == <<"$", "$">>
\* 41 characters
NameLong == [i \in 1..41 |-> "n"]

\* the items a "stages" list is built from
StagePool ==
    {Stage(Str(NameBuild), Str(EchoHello)),
     Stage(Str(NameRunTests), Str(PipInstall)),
     Stage(Str(NameDollars), Str(LsThenRm)),
     Stage(Str(NameLong), Str(PaddedLs)),
     Stage(Absent, Str(RmRf)),
     Stage(Null, Str(<<" ", "\n", "l", "s">>)),
     Stage(Str(NameBuild), Str(<<>>)),
     Stage(Str(NameBuild), Absent),
     Stage(Str(<<>>), Null),
     Stage(Str(NameBuild), Str(EchoSemi)),
     <<"other">>}

RECURSIVE SeqsUpTo(_, _)
SeqsUpTo(S, n) ==
    IF n = 0 THEN {<<>>}
    ELSE LET shorter == SeqsUpTo(S, n - 1)
         IN  shorter \cup {Append(s, x) : s \in shorter, x \in S}

\* decoded payloads handed to _postprocess_and_filter
RawPlans ==
    {<<"dict", <<"list", items>>>> : items \in SeqsUpTo(StagePool, MaxPlanLen)}
    \cup {<<"dict", Absent>>, <<"dict", Null>>, <<"dict", <<"dict">>>>,
          <<"dict", Str(<<>>)>>, <<"dict", Str(NameBuild)>>,
          <<"scalar">>, <<"list", <<>>>>, <<"list", <<<<"dict", Absent>>>>>>}

\* the Contexts that requests carry
CtxPool ==
    {<<<<"branch", "main">>, <<"message", "docs">>>>,
     <<<<"message", "docs">>, <<"branch", "main">>>>,
     <<<<"branch", "dev">>, <<"message", "docs">>>>}

Keys == {_ctx_key(ctx) : ctx \in CtxPool}

\* the Contexts that _ctx_key is called with directly: the JSON objects of
\* at most two members, in either order
CtxKeyPool == DOMAIN KeyRank
CtxValuePool == {"main", "dev", "docs"}
Contexts ==
    {<<>>}
    \cup {<<<<k, v>>>> : k \in CtxKeyPool, v \in CtxValuePool}
    \cup {<<<<k1, v1>>, <<k2, v2>>>> :
              <<k1, k2>> \in {kk \in CtxKeyPool \X CtxKeyPool : kk[1] # kk[2]},
              <<v1, v2>> \in CtxValuePool \X CtxValuePool}

GoodStages == <<Stage(Str(NameBuild), Str(EchoHello)), Stage(Str(NameRunTests), Str(RmRf))>>

\* the non-empty texts the Generator answers with
TextPool ==
    {<<"fenced", <<"json", <<"dict", <<"list", GoodStages>>>>>>>>,
     <<"prose", <<"json", <<"list", << <<"scalar">>, <<"dict", <<"list", <<Stage(Absent, Str(PaddedLs))>>>>>> >>>>>>>>,
     <<"bare", <<"json", <<"dict", <<"list", <<Stage(Str(NameBuild), Str(RmRf))>>>>>>>>>>,
     <<"prose", <<"junk">>>>,
     <<"bare", <<"json", <<"list", <<>>>>>>>>,
     <<"bare", <<"json", <<"dict", <<"list", <<Stage(Str(NameBuild), Str(<<>>))>>>>>>>>>>}

\* what one call of generate_content ends in: a text (<<>> is the empty
\* text) or an exception
GeneratorReplies ==
    {<<"text", t>> : t \in TextPool \cup {<<>>}}
    \cup {<<"error", "transient">>, <<"error", "terminal">>}

\* plans stored by direct use of the cache
PlanPool ==
    {PlanDict(<<[name |-> NameBuild, command |-> EchoHello]>>),
     PlanDict(<<[name |-> StrStage, command |-> LsL]>>)}

Requests == 1..MaxRequests

----------------------------------------------------------------------------
(* State *)

VARIABLES
    env_mode,            \* environment variable ALLOWLIST_MODE
    env_allowlist,       \* environment variable ALLOWLIST, split at ","
    env_max_cmd_length,  \* environment variable MAX_CMD_LENGTH
    policy_imported,     \* whether "from policy import is_allowed" succeeded
    ACTIVE_ALLOWLIST,    \* policy.ACTIVE_ALLOWLIST, built when policy is imported
    command,             \* the argument of a direct call of is_allowed
    verdict,             \* <<>> before that call returns, then <<its result>>
    raw_plan,            \* the argument of a call of _postprocess_and_filter
    filtered,            \* <<>> before that call returns, then its outcome
    refiltered,          \* <<>>, then the outcome of the call on the plan returned
    ctx_pair,            \* the two arguments of two calls of _ctx_key
    fingerprints,        \* <<>> before those calls return, then their two results
    clock,               \* time.time(), in seconds
    _plan_cache,         \* key -> None or <<expires_at, plan>>
    cache_op,            \* the last direct cache operation, <<>> when none
    last_put,            \* key -> None or <<time, plan>> of the last _put_cache
    req                  \* the /plan requests in progress

envVars == <<env_mode, env_allowlist, env_max_cmd_length, policy_imported, ACTIVE_ALLOWLIST>>
policyVars == <<command, verdict>>
filterVars == <<raw_plan, filtered, refiltered>>
keyVars == <<ctx_pair, fingerprints>>

cacheVars == <<clock, _plan_cache, cache_op, last_put>>

vars == <<envVars, keyVars, policyVars, filterVars, cacheVars, req>>

\* the process has started: the environment is fixed and policy.py, when it
\* could be imported, has built ACTIVE_ALLOWLIST
InitEnv(modes, allowlists, limits, imports) ==
    /\ env_mode \in modes
    /\ env_allowlist \in allowlists
    /\ env_max_cmd_length \in limits
    /\ policy_imported \in imports
    /\ ACTIVE_ALLOWLIST = load_active_allowlist(env_mode, env_allowlist)

NoPolicyCall == command = <<>> /\ verdict = <<>>
NoFilterCall == raw_plan = <<>> /\ filtered = <<>> /\ refiltered = <<>>
NoKeyCall == ctx_pair = <<>> /\ fingerprints = <<>>

\* a request slot in which no request is running
IdleReq ==
    [pc |-> "idle", key |-> <<>>, now |-> 0, attempt |-> 0, text |-> <<>>,
     last_err |-> None, calls |-> 0, slept |-> <<>>, filtered |-> None,
     outcome |-> "none", from_cache |-> FALSE, stages |-> <<>>]

EmptyCache ==
    /\ clock = 0
    /\ _plan_cache = [k \in Keys |-> None]
    /\ cache_op = <<>>
    /\ last_put = [k \in Keys |-> None]

NoRequests == req = [r \in Requests |-> IdleReq]

----------------------------------------------------------------------------
(* Direct use of the Policy Engine: is_allowed(command) *)

InitPolicy ==
    /\ InitEnv(ModePool, AllowlistPool, MaxCmdLengthPool, {TRUE})
    /\ command \in Commands
    /\ verdict = <<>>
    /\ NoFilterCall
    /\ EmptyCache
    /\ NoRequests
    /\ NoKeyCall

IsAllowedCall ==
    /\ verdict = <<>>
    /\ verdict' = <<is_allowed(ACTIVE_ALLOWLIST, env_max_cmd_length, command)>>
    /\ UNCHANGED <<envVars, keyVars, command, filterVars, cacheVars, req>>

NextPolicy == IsAllowedCall

SpecPolicy == InitPolicy /\ [][NextPolicy]_vars

----------------------------------------------------------------------------
(* The Sanitizer: _postprocess_and_filter(plan) *)

InitFilter ==
    /\ InitEnv({"strict", "off"}, {<<"base">>, <<"python">>, <<"">>},
               MaxCmdLengthPool, BOOLEAN)
    /\ raw_plan \in RawPlans
    /\ filtered = <<>>
    /\ refiltered = <<>>
    /\ NoPolicyCall
    /\ EmptyCache
    /\ NoRequests
    /\ NoKeyCall

FilterCall ==
    /\ filtered = <<>>
    /\ filtered' = _postprocess_and_filter(raw_plan, policy_imported, ACTIVE_ALLOWLIST,
                                           env_max_cmd_length)
    /\ UNCHANGED <<envVars, keyVars, raw_plan, refiltered, policyVars, cacheVars, req>>

\* the plan that _postprocess_and_filter returned, as the decoded payload of
\* its JSON serialisation
AsRawPlan(stages) ==
    <<"dict", <<"list", [i \in 1..Len(stages) |->
                            Stage(Str(stages[i].name), Str(stages[i].command))]>>>>

\* _postprocess_and_filter applied to the plan it returned
FilterAgainCall ==
    /\ filtered # <<>> /\ filtered[1] = "ok"
    /\ refiltered = <<>>
    /\ refiltered' = _postprocess_and_filter(AsRawPlan(filtered[2]), policy_imported,
                                             ACTIVE_ALLOWLIST, env_max_cmd_length)
    /\ UNCHANGED <<envVars, keyVars, raw_plan, filtered, policyVars, cacheVars, req>>

NextFilter == FilterCall \/ FilterAgainCall

SpecFilter == InitFilter /\ [][NextFilter]_vars

----------------------------------------------------------------------------
(* The Plan Cache used by one caller at a time: _get_cached, _put_cache *)

DefaultEnv == InitEnv({"strict"}, {<<"base">>}, {MAX_CMD_LENGTH_DEFAULT}, {TRUE})

InitCache ==
    /\ DefaultEnv
    /\ NoPolicyCall
    /\ NoFilterCall
    /\ EmptyCache
    /\ NoRequests
    /\ NoKeyCall

\* time passes
Tick ==
    /\ clock < MaxTime
    /\ clock' = clock + 1
    /\ UNCHANGED <<envVars, keyVars, policyVars, filterVars, _plan_cache, cache_op, last_put, req>>

CachePut(key, plan) ==
    /\ _plan_cache' = _put_cache(_plan_cache, key, plan, clock)
    /\ last_put' = [last_put EXCEPT ![key] = <<clock, plan>>]
    /\ cache_op' = <<"put", key, clock, plan>>
    /\ UNCHANGED <<envVars, keyVars, policyVars, filterVars, clock, req>>

CacheGet(key) ==
    /\ _plan_cache' = GetCachedCache(_plan_cache, key, clock)
    /\ cache_op' = <<"get", key, clock, GetCachedResult(_plan_cache, key, clock)>>
    /\ UNCHANGED <<envVars, keyVars, policyVars, filterVars, clock, last_put, req>>

NextCache ==
    \/ Tick
    \/ \E key \in Keys, plan \in PlanPool : CachePut(key, plan)
    \/ \E key \in Keys : CacheGet(key)

SpecCache == InitCache /\ [][NextCache]_vars

----------------------------------------------------------------------------
(* The fingerprint: _ctx_key(ctx) *)

InitKey ==
    /\ DefaultEnv
    /\ ctx_pair \in Contexts \X Contexts
    /\ fingerprints = <<>>
    /\ NoPolicyCall
    /\ NoFilterCall
    /\ EmptyCache
    /\ req = [r \in Requests |-> IdleReq]

CtxKeyCall ==
    /\ fingerprints = <<>>
    /\ fingerprints' = <<_ctx_key(ctx_pair[1]), _ctx_key(ctx_pair[2])>>
    /\ UNCHANGED <<envVars, ctx_pair, policyVars, filterVars, cacheVars, req>>

NextKey == CtxKeyCall

SpecKey == InitKey /\ [][NextKey]_vars

----------------------------------------------------------------------------
(* The /plan handler *)

\* attempts of the retry loop
GENAI_RETRIES == 3

\* GENAI_BACKOFF = 0.75 as the fraction <<3, 4>>
GENAI_BACKOFF == <<3, 4>>

RECURSIVE Pow(_, _)
Pow(b, e) == IF e = 0 THEN 1 ELSE b * Pow(b, e - 1)

\* (GENAI_BACKOFF ** attempt) + 0.25, in seconds, as <<numerator, denominator>>
BackoffDelay(attempt) ==
    LET n == Pow(GENAI_BACKOFF[1], attempt)
        d == Pow(GENAI_BACKOFF[2], attempt)
    IN  <<4 * n + d, 4 * d>>

Set(r, rec) == req' = [req EXCEPT ![r] = rec]

\* the handler returns: the response is kept in the slot, the locals that
\* the response does not show are dropped
Respond(rec, outcome, from_cache, stages) ==
    [rec EXCEPT !.pc = "done", !.key = <<>>, !.now = 0, !.attempt = 0, !.filtered = None,
                !.outcome = outcome, !.from_cache = from_cache, !.stages = stages]

\* a request arrives: ctx = request.get_json(silent=True) or {}; key = _ctx_key(ctx)
PlanStart(r, ctx) ==
    /\ req[r].pc = "idle"
    /\ Set(r, [req[r] EXCEPT !.pc = "get_now", !.key = _ctx_key(ctx)])
    /\ UNCHANGED <<envVars, keyVars, policyVars, filterVars, cacheVars>>

\* _get_cached: now = time.time()
GetCachedNow(r) ==
    /\ req[r].pc = "get_now"
    /\ Set(r, [req[r] EXCEPT !.pc = "get_ent", !.now = clock])
    /\ UNCHANGED <<envVars, keyVars, policyVars, filterVars, cacheVars>>

\* where the handler goes after _get_cached returned None
AfterMiss(rec) ==
    IF GENAI_RETRIES > 0 THEN [rec EXCEPT !.pc = "generate", !.now = 0]
    ELSE Respond(rec, "UpstreamExhausted", FALSE, <<>>)

\* GetCachedLookup that never takes the entry for valid
GetCachedLookup_never_valid(r) ==
    /\ req[r].pc = "get_ent"
    /\ LET ent == _plan_cache[req[r].key]
       IN  IF ent # None
              THEN Set(r, [req[r] EXCEPT !.pc = "get_pop", !.now = 0])
           ELSE Set(r, AfterMiss(req[r]))
    /\ UNCHANGED <<envVars, keyVars, policyVars, filterVars, cacheVars>>

\* _get_cached: ent = _plan_cache.get(key) and the test of its expiry; on a
\* hit the handler answers with the cached stages
GetCachedLookup(r) ==
    /\ req[r].pc = "get_ent"
    /\ LET ent == _plan_cache[req[r].key]
       IN  IF ent # None /\ ent[1] > req[r].now
              THEN Set(r, Respond(req[r], "Success", TRUE, StagesOf(ent[2])))
           ELSE IF ent # None
              THEN Set(r, [req[r] EXCEPT !.pc = "get_pop", !.now = 0])
           ELSE Set(r, AfterMiss(req[r]))
    /\ UNCHANGED <<envVars, keyVars, policyVars, filterVars, cacheVars>>

\* _get_cached: _plan_cache.pop(key, None), then return None
GetCachedPop(r) ==
    /\ req[r].pc = "get_pop"
    /\ _plan_cache' = [_plan_cache EXCEPT ![req[r].key] = None]
    /\ Set(r, AfterMiss(req[r]))
    /\ UNCHANGED <<envVars, keyVars, policyVars, filterVars, clock, cache_op, last_put>>

\* ParseAndFilter without the test for an empty stage list
ParseAndFilter_caches_empty(rec, imported, active, max_cmd_length) ==
    LET loaded == json_loads(_extract_json(rec.text))
    IN  IF loaded[1] = "raise" THEN Respond(rec, "ParseError", FALSE, <<>>)
        ELSE LET f == _postprocess_and_filter(loaded[2], imported, active, max_cmd_length)
             IN  IF f[1] = "raise" THEN Respond(rec, "Unhandled", FALSE, <<>>)
                 ELSE [rec EXCEPT !.pc = "put", !.filtered = PlanDict(f[2])]

\* the handler after the retry loop left with a non-empty text:
\* _extract_json, json.loads and _postprocess_and_filter, up to _put_cache
ParseAndFilter(rec, imported, active, max_cmd_length) ==
    LET loaded == json_loads(_extract_json(rec.text))
    IN  IF loaded[1] = "raise" THEN Respond(rec, "ParseError", FALSE, <<>>)
        ELSE LET f == _postprocess_and_filter(loaded[2], imported, active, max_cmd_length)
             IN  IF f[1] = "raise" THEN Respond(rec, "Unhandled", FALSE, <<>>)
                 ELSE IF Len(f[2]) = 0 THEN Respond(rec, "EmptyPlan", FALSE, <<>>)
                 ELSE [rec EXCEPT !.pc = "put", !.filtered = PlanDict(f[2])]

\* one pass of the retry loop up to the backoff: generate_content answers
\* with a text or raises; a non-empty text leaves the loop
GenerateCall(r, reply) ==
    /\ req[r].pc = "generate"
    /\ LET called == [req[r] EXCEPT !.calls = @ + 1]
       IN  IF reply[1] = "error"
              THEN Set(r, [called EXCEPT !.pc = "sleep", !.last_err = <<reply[2]>>])
           ELSE IF reply[2] # <<>>
              THEN Set(r, ParseAndFilter([called EXCEPT !.text = reply[2], !.last_err = None],
                                         policy_imported, ACTIVE_ALLOWLIST,
                                         env_max_cmd_length))
           ELSE Set(r, [called EXCEPT !.pc = "sleep"])
    /\ UNCHANGED <<envVars, keyVars, policyVars, filterVars, cacheVars>>

\* BackoffSleep with a loop of GENAI_RETRIES + 1 passes
BackoffSleep_extra_pass(r) ==
    /\ req[r].pc = "sleep"
    /\ LET slept == [req[r] EXCEPT !.slept = Append(@, BackoffDelay(req[r].attempt)),
                                   !.attempt = @ + 1]
       IN  IF slept.attempt <= GENAI_RETRIES
              THEN Set(r, [slept EXCEPT !.pc = "generate"])
           ELSE Set(r, Respond(slept, "UpstreamExhausted", FALSE, <<>>))
    /\ UNCHANGED <<envVars, keyVars, policyVars, filterVars, cacheVars>>

\* time.sleep((GENAI_BACKOFF ** attempt) + 0.25), then the next pass of the
\* loop or, after the last pass, the answer gemini_no_text
BackoffSleep(r) ==
    /\ req[r].pc = "sleep"
    /\ LET slept == [req[r] EXCEPT !.slept = Append(@, BackoffDelay(req[r].attempt)),
                                   !.attempt = @ + 1]
       IN  IF slept.attempt < GENAI_RETRIES
              THEN Set(r, [slept EXCEPT !.pc = "generate"])
           ELSE Set(r, Respond(slept, "UpstreamExhausted", FALSE, <<>>))
    /\ UNCHANGED <<envVars, keyVars, policyVars, filterVars, cacheVars>>

\* _put_cache(key, filtered) and the answer with the plan
PutAndRespond(r) ==
    /\ req[r].pc = "put"
    /\ _plan_cache' = _put_cache(_plan_cache, req[r].key, req[r].filtered, clock)
    /\ Set(r, Respond(req[r], "Success", FALSE, StagesOf(req[r].filtered)))
    /\ UNCHANGED <<envVars, keyVars, policyVars, filterVars, clock, cache_op, last_put>>

\* the response has been sent; the slot takes the next request
Finish(r) ==
    /\ req[r].pc = "done"
    /\ Set(r, IdleReq)
    /\ UNCHANGED <<envVars, keyVars, policyVars, filterVars, cacheVars>>

Init ==
    /\ InitEnv({"strict"}, {<<"base">>}, {MAX_CMD_LENGTH_DEFAULT}, BOOLEAN)
    /\ NoPolicyCall
    /\ NoFilterCall
    /\ EmptyCache
    /\ NoRequests
    /\ NoKeyCall

Next ==
    \/ Tick
    \/ \E r \in Requests, ctx \in CtxPool : PlanStart(r, ctx)
    \/ \E r \in Requests : GetCachedNow(r)
    \/ \E r \in Requests : GetCachedLookup(r)
    \/ \E r \in Requests : GetCachedPop(r)
    \/ \E r \in Requests, reply \in GeneratorReplies : GenerateCall(r, reply)
    \/ \E r \in Requests : BackoffSleep(r)
    \/ \E r \in Requests : PutAndRespond(r)
    \/ \E r \in Requests : Finish(r)

Spec == Init /\ [][Next]_vars

----------------------------------------------------------------------------
(* Properties *)

FourOutcomes == {"Success", "EmptyPlan", "ParseError", "UpstreamExhausted"}

\* C1: every /plan request that has ended, ended in Success, EmptyPlan,
\* ParseError or UpstreamExhausted; the generic "unhandled" answer is never
\* given.
C1_OnlyFourOutcomes ==
    \A r \in Requests : req[r].pc = "done" => req[r].outcome \in FourOutcomes

\* the stage list that _postprocess_and_filter looks at
ConsideredStages(plan) ==
    IF plan[1] = "dict" /\ plan[2][1] = "list"
        THEN SubSeq(plan[2][2], 1, Min(MAX_STAGES, Len(plan[2][2])))
        ELSE <<>>

\* C2: every stage of a plan returned by _postprocess_and_filter has a
\* command that is non-empty, has no line break, has no blank at either end
\* and is accepted by the is_allowed in force.
C2_FilteredCommandsAllowed ==
    (filtered # <<>> /\ filtered[1] = "ok") =>
        \A i \in 1..Len(filtered[2]) :
            LET c == filtered[2][i].command
            IN  /\ Len(c) > 0
                /\ \A j \in 1..Len(c) : c[j] \notin LineBreak
                /\ c[1] \notin Space /\ c[Len(c)] \notin Space
                /\ IF policy_imported
                      THEN NormMode(env_mode) = "off"
                           \/ (/\ Len(c) <= env_max_cmd_length
                               /\ \E k \in 1..Len(ACTIVE_ALLOWLIST) :
                                      Match(re_compile(ACTIVE_ALLOWLIST[k]), c))
                      ELSE TRUE

\* C2 witness: under a strict policy a plan came back with a stage kept and
\* another stage dropped.
C2_Witness ==
    /\ filtered # <<>> /\ filtered[1] = "ok"
    /\ policy_imported /\ NormMode(env_mode) = "strict"
    /\ Len(filtered[2]) >= 1
    /\ Len(filtered[2]) < Len(ConsideredStages(raw_plan))

TooLong == Len(strip(command)) > env_max_cmd_length

\* C3 as stated: a command whose trimmed length exceeds the maximum is
\* rejected whatever the mode and the rule-sets.
C3_LongRejectedInEveryMode ==
    (verdict # <<>> /\ TooLong) => verdict[1] = FALSE

\* C3 as amended: unless the mode is off, a command whose trimmed length
\* exceeds the maximum is rejected whatever its content and the rule-sets.
C3_LongRejectedUnlessOff ==
    (verdict # <<>> /\ TooLong /\ NormMode(env_mode) # "off") => verdict[1] = FALSE

\* C3 witness: "echo hello" matches the baseline pattern and is rejected
\* because the configured maximum is shorter.
C3_Witness ==
    /\ command = EchoHello /\ TooLong /\ NormMode(env_mode) = "strict"
    /\ verdict = <<FALSE>>

\* the names of env_allowlist that are rule-sets
KnownSelected ==
    {env_allowlist[i] : i \in {j \in 1..Len(env_allowlist) :
                                  env_allowlist[j] \in DOMAIN ALLOWLIST_SETS}}

MatchesSelectedOrBaseline(cmd) ==
    \/ Match(re_compile(BASELINE), cmd)
    \/ \E name \in KnownSelected : \E k \in 1..Len(ALLOWLIST_SETS[name]) :
            Match(re_compile(ALLOWLIST_SETS[name][k]), cmd)

C5_OffAllowsEverything ==
    (verdict # <<>> /\ NormMode(env_mode) = "off") => verdict[1] = TRUE

\* C5 witness: off mode allowed a command longer than the maximum.
C5_Witness ==
    /\ NormMode(env_mode) = "off" /\ TooLong /\ verdict = <<TRUE>>

\* C6: unless the mode is off, the baseline echo pattern is in the active
\* allowlist whatever set names are selected, and "echo hello" is allowed
\* (whenever the configured maximum length admits it).
C6_BaselineAlwaysActive ==
    NormMode(env_mode) # "off" =>
        /\ InSeq(BASELINE, ACTIVE_ALLOWLIST)
        /\ (verdict # <<>> /\ command = EchoHello /\ ~TooLong) => verdict[1] = TRUE

\* C6 witness: "echo hello" allowed although no known set is selected.
C6_Witness ==
    /\ NormMode(env_mode) = "strict" /\ KnownSelected = {}
    /\ command = EchoHello /\ verdict = <<TRUE>>

\* C7: a get of key k returns the plan of the most recent put of k iff the
\* time of the get is strictly before the time of that put plus the TTL;
\* otherwise it returns None and k has no entry afterwards.
C7_GetWithinTtl ==
    (cache_op # <<>> /\ cache_op[1] = "get") =>
        LET k == cache_op[2]
            at == cache_op[3]
            result == cache_op[4]
            put == last_put[k]
        IN  IF put # None /\ at < put[1] + CACHE_TTL_SEC
               THEN result = put[2]
               ELSE result = None /\ _plan_cache[k] = None

\* C7 witness: a get found the entry expired and removed it.
C7_Witness ==
    /\ cache_op # <<>> /\ cache_op[1] = "get"
    /\ last_put[cache_op[2]] # None
    /\ cache_op[4] = None
    /\ _plan_cache[cache_op[2]] = None

\* the lookup of request r takes place in this step and finds an entry
\* that has not expired
LooksUpValidEntry(r) ==
    /\ req[r].pc = "get_ent" /\ req'[r] # req[r]
    /\ _plan_cache[req[r].key] # None
    /\ _plan_cache[req[r].key][1] > clock

\* C8: a request whose lookup finds an unexpired entry answers with that
\* entry's stages and has called the Generator zero times; the Generator is
\* called only by a request whose lookup has ended without a hit.
C8_HitSkipsGenerator ==
    /\ [][\A r \in Requests :
              LooksUpValidEntry(r) =>
                  /\ req'[r].pc = "done" /\ req'[r].outcome = "Success"
                  /\ req'[r].from_cache
                  /\ req'[r].stages = StagesOf(_plan_cache[req[r].key][2])
                  /\ req'[r].calls = 0]_vars
    /\ [][\A r \in Requests :
              req'[r].calls > req[r].calls => req[r].pc = "generate"]_vars
    /\ [](\A r \in Requests :
              req[r].calls > 0 =>
                  ~req[r].from_cache /\ req[r].pc \notin {"get_now", "get_ent", "get_pop"})

\* C8 witness: a request was answered from the cache without any call.
C8_Witness ==
    \E r \in Requests :
        /\ req[r].pc = "done" /\ req[r].from_cache /\ req[r].outcome = "Success"
        /\ req[r].calls = 0 /\ Len(req[r].stages) > 0

\* C9: a request calls the Generator at most GENAI_RETRIES times, never
\* again once a call returned a non-empty text, and a request that got no
\* text ends in UpstreamExhausted after exactly GENAI_RETRIES calls.
C9_BoundedRetries ==
    /\ [](\A r \in Requests :
              /\ req[r].calls <= GENAI_RETRIES
              /\ req[r].outcome = "UpstreamExhausted" =>
                     req[r].calls = GENAI_RETRIES /\ req[r].text = <<>>
              /\ (req[r].pc = "done" /\ ~req[r].from_cache /\ req[r].text = <<>>) =>
                     req[r].outcome = "UpstreamExhausted" /\ req[r].calls = GENAI_RETRIES)
    /\ [][\A r \in Requests :
              req[r].text # <<>> => req'[r].calls = req[r].calls \/ req'[r] = IdleReq]_vars

\* C9 witness: a request ended in UpstreamExhausted after GENAI_RETRIES calls.
C9_Witness ==
    \E r \in Requests :
        /\ req[r].pc = "done" /\ req[r].outcome = "UpstreamExhausted"
        /\ req[r].calls = GENAI_RETRIES

\* C10: no sleep before the first call and every sleep is followed by a
\* call: a request that has ended after k >= 1 calls has slept k - 1 times.
C10_SleepsOnlyBetweenCalls ==
    \A r \in Requests :
        /\ req[r].calls = 0 => req[r].slept = <<>>
        /\ (req[r].pc = "done" /\ req[r].calls > 0) =>
               Len(req[r].slept) = req[r].calls - 1


\* C11: the backoff sleep taken after failed attempt a (0-based) lasts
\* GENAI_BACKOFF * 2^a seconds, and the sleeps of a request never get
\* shorter from one attempt to the next.
C11_BackoffDoubles ==
    \A r \in Requests :
        /\ \A i \in 1..Len(req[r].slept) :
               req[r].slept[i][1] * GENAI_BACKOFF[2]
                   = req[r].slept[i][2] * GENAI_BACKOFF[1] * Pow(2, i - 1)
        /\ \A i \in 1..(Len(req[r].slept) - 1) :
               req[r].slept[i][1] * req[r].slept[i + 1][2]
                   <= req[r].slept[i + 1][1] * req[r].slept[i][2]

\* C12: a request whose Generator call failed with a terminal failure has
\* ended in UpstreamExhausted with that call as its last: it is never left
\* about to sleep or to call again.
C12_TerminalEndsRetries ==
    \A r \in Requests :
        req[r].last_err = <<"terminal">> =>
            req[r].pc = "done" /\ req[r].outcome = "UpstreamExhausted"

\* C13: a step that removes the cache entry of a key removes an entry that
\* is expired at the time of that step.
C13_OnlyExpiredRemoved ==
    [][\A k \in Keys :
           (_plan_cache[k] # None /\ _plan_cache'[k] = None) =>
               _plan_cache[k][1] <= clock]_vars

\* C17: when the policy module could not be loaded no /plan request is
\* served: under strict mode no request gets its plan filtered by the
\* allow-everything fallback.
C17_NoFallbackUnderStrict ==
    \A r \in Requests :
        (NormMode(env_mode) = "strict" /\ req[r].pc \in {"put", "done"}
             /\ req[r].text # <<>>) => policy_imported


\* what the handler makes of the Generator's text: the outcome of
\* _postprocess_and_filter on the decoded payload, <<"raise", ...>> when
\* decoding or filtering raised
FilterOfText(t) ==
    LET loaded == json_loads(_extract_json(t))
    IN  IF loaded[1] = "raise" THEN loaded
        ELSE _postprocess_and_filter(loaded[2], policy_imported, ACTIVE_ALLOWLIST,
                                     env_max_cmd_length)

FailureOutcomes == {"EmptyPlan", "ParseError", "UpstreamExhausted"}

\* C20: every cache entry holds a plan of at least one stage; an entry is
\* added or overwritten only in the step in which a request for that key
\* ends in Success, with the plan that _postprocess_and_filter returned for
\* the text of that request, which is also the request's answer; the step
\* in which a request ends in EmptyPlan, ParseError or UpstreamExhausted
\* leaves the cache as it is.
C20_CacheWrittenOnlyBySuccess ==
    /\ [](\A k \in Keys :
              _plan_cache[k] # None => Len(StagesOf(_plan_cache[k][2])) >= 1)
    /\ [][\A k \in Keys :
              (_plan_cache'[k] # _plan_cache[k] /\ _plan_cache'[k] # None) =>
                  \E r \in Requests :
                      /\ req[r].key = k /\ req[r].pc # "done"
                      /\ req'[r].pc = "done" /\ req'[r].outcome = "Success"
                      /\ ~req'[r].from_cache
                      /\ req'[r].stages = StagesOf(_plan_cache'[k][2])
                      /\ req[r].text # <<>>
                      /\ FilterOfText(req[r].text) = <<"ok", req'[r].stages>>]_vars
    /\ [][\A r \in Requests :
              (req[r].pc # "done" /\ req'[r].pc = "done"
                   /\ req'[r].outcome \in FailureOutcomes) =>
                  _plan_cache' = _plan_cache]_vars

\* C20 witness: one request has ended in Success and its plan is the only
\* cache entry, another request has ended in a failure.
C20_Witness ==
    /\ \E r \in Requests :
           /\ req[r].pc = "done" /\ req[r].outcome = "Success" /\ ~req[r].from_cache
           /\ \E k \in Keys : /\ _plan_cache[k] # None
                              /\ StagesOf(_plan_cache[k][2]) = req[r].stages
                              /\ \A j \in Keys \ {k} : _plan_cache[j] = None
    /\ \E r \in Requests : req[r].pc = "done" /\ req[r].outcome \in FailureOutcomes


\* C14: _postprocess_and_filter applied to the plan it returned, under the
\* same policy and maximum stage count, returns that plan again.
C14_FilterIdempotent ==
    refiltered # <<>> => refiltered = filtered

\* C14 witness: the second call returned, on a plan that the first call had
\* changed: a stage was dropped and the plan returned differs from the input.
C14_Witness ==
    /\ refiltered # <<>>
    /\ policy_imported /\ NormMode(env_mode) = "strict"
    /\ Len(filtered[2]) >= 1
    /\ Len(filtered[2]) < Len(ConsideredStages(raw_plan))
    /\ AsRawPlan(filtered[2]) # raw_plan

\* C15: every stage name of a plan returned by _postprocess_and_filter is
\* non-empty, at most 40 characters long and made of letters, digits, space,
\* dot, dash and underscore.
C15_NamesSanitizedNonEmpty ==
    (filtered # <<>> /\ filtered[1] = "ok") =>
        \A i \in 1..Len(filtered[2]) :
            LET n == filtered[2][i].name
            IN  /\ Len(n) > 0
                /\ Len(n) <= 40
                /\ \A j \in 1..Len(n) : n[j] \in NameChars

\* the command that an input stage contributes when its command field is
\* there: the trimmed first line of that field
GivenCommand(raw) == strip(FirstLine(StrOfMember(raw[3], <<>>)))

\* C16: every command of a plan returned by _postprocess_and_filter is the
\* trimmed first line of the command field of an input stage that has a
\* command field.
C16_NoDefaultInjected ==
    (filtered # <<>> /\ filtered[1] = "ok") =>
        \A i \in 1..Len(filtered[2]) :
            \E j \in 1..Len(ConsideredStages(raw_plan)) :
                LET raw == ConsideredStages(raw_plan)[j]
                IN  /\ raw[1] = "stage"
                    /\ raw[3][1] # "absent"
                    /\ filtered[2][i].command = GivenCommand(raw)

\* the returned stage out is what the input stage raw becomes
DerivedFrom(out, raw) ==
    /\ raw[1] = "stage"
    /\ out.name = _sanitize_name(StrOfMember(raw[2], StrStage))
    /\ out.command = strip(FirstLine(StrOfMember(raw[3], StrEchoNoop)))

\* outs is derived, stage by stage and in order, from a subsequence of ins
RECURSIVE IsDerivedSubseq(_, _)
IsDerivedSubseq(outs, ins) ==
    IF Len(outs) = 0 THEN TRUE
    ELSE IF Len(ins) = 0 THEN FALSE
    ELSE \/ DerivedFrom(Head(outs), Head(ins)) /\ IsDerivedSubseq(Tail(outs), Tail(ins))
         \/ IsDerivedSubseq(outs, Tail(ins))

\* C19: the plan returned by _postprocess_and_filter has at most MAX_STAGES
\* stages and is derived, in order, from a subsequence of the first
\* MAX_STAGES input stages.
C19_TruncatedBeforeFiltering ==
    (filtered # <<>> /\ filtered[1] = "ok") =>
        /\ Len(filtered[2]) <= MAX_STAGES
        /\ IsDerivedSubseq(filtered[2], ConsideredStages(raw_plan))

\* C19 witness: the input has a stage beyond the first MAX_STAGES that the
\* policy allows, one of the first MAX_STAGES stages was discarded, and the
\* plan returned has fewer than MAX_STAGES stages.
C19_Witness ==
    /\ filtered # <<>> /\ filtered[1] = "ok"
    /\ policy_imported /\ NormMode(env_mode) = "strict"
    /\ raw_plan[1] = "dict" /\ raw_plan[2][1] = "list"
    /\ Len(raw_plan[2][2]) > MAX_STAGES
    /\ LET beyond == raw_plan[2][2][MAX_STAGES + 1]
       IN  /\ beyond[1] = "stage" /\ beyond[3][1] = "str"
           /\ Len(GivenCommand(beyond)) > 0
           /\ is_allowed(ACTIVE_ALLOWLIST, env_max_cmd_length, GivenCommand(beyond))
    /\ Len(filtered[2]) >= 1
    /\ Len(filtered[2]) < MAX_STAGES


\* the set of key/value pairs of a Context
PairsOf(ctx) == {ctx[i] : i \in 1..Len(ctx)}

\* the value that a Context gives to a key
ValueOf(ctx, k) == (CHOOSE p \in PairsOf(ctx) : p[1] = k)[2]

\* two Contexts over the same keys that differ in the value of a key
DifferInAValue(c1, c2) ==
    /\ {p[1] : p \in PairsOf(c1)} = {p[1] : p \in PairsOf(c2)}
    /\ \E k \in {p[1] : p \in PairsOf(c1)} : ValueOf(c1, k) # ValueOf(c2, k)

\* C18: two Contexts with the same key/value pairs, in whatever order, have
\* the same fingerprint, and two Contexts that differ in a value have
\* different fingerprints.
C18_FingerprintOfPairs ==
    fingerprints # <<>> =>
        /\ PairsOf(ctx_pair[1]) = PairsOf(ctx_pair[2]) => fingerprints[1] = fingerprints[2]
        /\ DifferInAValue(ctx_pair[1], ctx_pair[2]) => fingerprints[1] # fingerprints[2]

\* C18 witness: two Contexts with the same two pairs in different order got
\* the same fingerprint.
C18_Witness ==
    /\ fingerprints # <<>>
    /\ Len(ctx_pair[1]) = 2
    /\ ctx_pair[1] # ctx_pair[2]
    /\ PairsOf(ctx_pair[1]) = PairsOf(ctx_pair[2])
    /\ fingerprints[1] = fingerprints[2]

============================================================================
